---------------------------- MODULE Spec2Model ----------------------------
(***************************************************************************)
(* Token lifecycle of tt-stock-api: login, refresh rotation, logout and    *)
(* the JWTProtected middleware, over the users table and the               *)
(* token_blacklist table.                                                  *)
(*                                                                         *)
(* Time is counted in whole seconds, the precision of the timestamps of a  *)
(* token (jwt.NewNumericDate truncates to seconds).                        *)
(***************************************************************************)
EXTENDS Integers, Sequences, FiniteSets, Bags, TLC

----------------------------------------------------------------------------
(* Bounds of the model *)

NumProcs == 2
MaxRequests == 3
MaxClockMoves == 1
MaxDrift == 1
MaxParseDelay == 2

(* Program constants *)

AccessTTL == 900
RefreshTTL == 86400
ExpiresIn == 900

----------------------------------------------------------------------------
(* Values *)

Procs == 1..NumProcs

Digits == {"0", "1", "2", "3", "4", "5", "6", "7", "8", "9"}

Phone1 == <<"0", "8", "1", "2", "3", "4", "5", "6", "7", "8">>
PhoneUnknown == <<"0", "8", "0", "0", "0", "0", "0", "0", "0", "0">>
PhoneBadFormat == <<"8", "1", "2", "3", "4">>
PhoneInputs == {Phone1, PhoneUnknown, PhoneBadFormat, <<>>}

Pin1 == <<"1", "2", "3", "4", "5", "6">>
PinWrong == <<"6", "5", "4", "3", "2", "1">>
PinBadFormat == <<"1", "2", "a", "b">>
PinInputs == {Pin1, PinWrong, PinBadFormat, <<>>}

NilUUID == "00000000-0000-0000-0000-000000000000"
User1ID == "user-1"

Never == -1

NoError == "nil"

(* utils.HashPin / utils.CheckPin: bcrypt keeps the PIN recoverable only   *)
(* by comparison; the hash is modelled as a tagged copy of the PIN.        *)
HashPin(pin) == [bcrypt |-> pin]

CheckPin(hashedPin, plainPin) ==
    IF hashedPin = HashPin(plainPin) THEN NoError
    ELSE "crypto/bcrypt: hashedPassword is not the hash of the given password"

(* user.User; the users table holds the accounts an administrator has      *)
(* created.                                                                *)
NoUser == [ID |-> NilUUID, PhoneNumber |-> <<>>, PinHash |-> HashPin(<<>>),
           UpdatedAt |-> Never, LastLoginAt |-> Never]

InitialUsers ==
    { [ID |-> User1ID, PhoneNumber |-> Phone1, PinHash |-> HashPin(Pin1),
       UpdatedAt |-> 0, LastLoginAt |-> Never] }

----------------------------------------------------------------------------
(* Tokens.  A token string is determined by its header, its claims and the *)
(* key it was signed with: HS256 is deterministic, so two tokens with the  *)
(* same claims signed with the same key are the same string.               *)

MakeToken(form, alg, key, userID, phoneNumber, tokenType, exp, iat, nbf) ==
    [form |-> form, alg |-> alg, key |-> key,
     UserID |-> userID, PhoneNumber |-> phoneNumber, TokenType |-> tokenType,
     ExpiresAt |-> exp, IssuedAt |-> iat, NotBefore |-> nbf,
     Issuer |-> "tt-stock-api", Subject |-> userID]

EmptyToken ==
    MakeToken("empty", "", "", NilUUID, <<>>, "", 0, 0, 0)

MalformedToken ==
    MakeToken("malformed", "", "", NilUUID, <<>>, "", 0, 0, 0)

(* Tokens a client can craft without the service secret. *)
ForgedKeyToken ==
    MakeToken("jwt", "HS256", "other", User1ID, Phone1, "refresh",
              2 * RefreshTTL, 0, 0)

ForgedAlgToken ==
    MakeToken("jwt", "none", "", User1ID, Phone1, "access",
              2 * RefreshTTL, 0, 0)

CraftedTokens == {EmptyToken, MalformedToken, ForgedKeyToken, ForgedAlgToken}

NoClaims == MakeToken("none", "", "", NilUUID, <<>>, "", 0, 0, 0)

(* service.GenerateAccessToken; the three time.Now() reads are tExp, tIat, *)
(* tNbf.                                                                   *)
GenerateAccessToken(userID, phoneNumber, tExp, tIat, tNbf) ==
    MakeToken("jwt", "HS256", "secret", userID, phoneNumber, "access",
              tExp + AccessTTL, tIat, tNbf)

(* service.GenerateRefreshToken *)
GenerateRefreshToken(userID, phoneNumber, tExp, tIat, tNbf) ==
    MakeToken("jwt", "HS256", "secret", userID, phoneNumber, "refresh",
              tExp + RefreshTTL, tIat, tNbf)

(* GenerateTokens reporting the lifetime of the refresh token. *)
GenerateTokens_RefreshLifetime(userID, phoneNumber, r) ==
    [AccessToken |-> GenerateAccessToken(userID, phoneNumber, r[1], r[2], r[3]),
     RefreshToken |-> GenerateRefreshToken(userID, phoneNumber, r[4], r[5], r[6]),
     ExpiresIn |-> RefreshTTL]

(* service.GenerateTokens; r is the sequence of the six clock reads. *)
GenerateTokens(userID, phoneNumber, r) ==
    [AccessToken |-> GenerateAccessToken(userID, phoneNumber, r[1], r[2], r[3]),
     RefreshToken |-> GenerateRefreshToken(userID, phoneNumber, r[4], r[5], r[6]),
     ExpiresIn |-> ExpiresIn]

NoPair == [AccessToken |-> EmptyToken, RefreshToken |-> EmptyToken, ExpiresIn |-> 0]

(* service.GenerateTokens with its error returns: signed[1] and signed[2]   *)
(* say whether SignedString succeeds for the access and the refresh token.  *)
GenerateTokensResult(userID, phoneNumber, r, signed) ==
    IF ~signed[1]
    THEN [err |-> "failed to generate access token", pair |-> NoPair]
    ELSE IF ~signed[2]
    THEN [err |-> "failed to generate refresh token", pair |-> NoPair]
    ELSE [err |-> NoError, pair |-> GenerateTokens(userID, phoneNumber, r)]

(* The methods of type *jwt.SigningMethodHMAC. *)
HMACMethods == {"HS256", "HS384", "HS512"}

(* ParseWithClaims accepting the claims without verifying the signature. *)
ParseWithClaims_NoSignatureCheck(tok, t) ==
    IF tok.form # "jwt" THEN "token is malformed"
    ELSE IF tok.alg \notin HMACMethods THEN "invalid token signing method"
    ELSE IF ~(t < tok.ExpiresAt) THEN "token is expired"
    ELSE IF t < tok.NotBefore THEN "token is not valid yet"
    ELSE NoError

(* jwt.ParseWithClaims with the key function of service.ParseToken: the    *)
(* library rejects an unparsable string, the key function rejects a        *)
(* non-HMAC method, the signature is verified with the service secret and  *)
(* the registered claims are validated at time t (exp: t < exp, nbf:       *)
(* t >= nbf).                                                              *)
ParseWithClaims(tok, t) ==
    IF tok.form # "jwt" THEN "token is malformed"
    ELSE IF tok.alg \notin HMACMethods THEN "invalid token signing method"
    ELSE IF tok.key # "secret" THEN "signature is invalid"
    ELSE IF ~(t < tok.ExpiresAt) THEN "token is expired"
    ELSE IF t < tok.NotBefore THEN "token is not valid yet"
    ELSE NoError

(* ParseToken refusing a token in the second of its notBefore. *)
ParseToken_NotBeforeStrict(tok, t1, t2) ==
    IF tok.form = "empty" THEN [err |-> "token is required", claims |-> NoClaims]
    ELSE IF ParseWithClaims(tok, t1) # NoError \/ t1 <= tok.NotBefore
         THEN [err |-> "invalid token", claims |-> NoClaims]
    ELSE IF tok.ExpiresAt < t2
         THEN [err |-> "token has expired", claims |-> NoClaims]
    ELSE [err |-> NoError, claims |-> tok]

(* service.ParseToken; t1 is the time of the library's validation, t2 the  *)
(* time.Now() of the explicit expiry check.                                *)
ParseToken(tok, t1, t2) ==
    IF tok.form = "empty" THEN [err |-> "token is required", claims |-> NoClaims]
    ELSE IF ParseWithClaims(tok, t1) # NoError
         THEN [err |-> "invalid token", claims |-> NoClaims]
    ELSE IF tok.ExpiresAt < t2
         THEN [err |-> "token has expired", claims |-> NoClaims]
    ELSE [err |-> NoError, claims |-> tok]

----------------------------------------------------------------------------
(* service.ValidatePhoneNumber: ^0[0-9]{9}$ *)
ValidatePhoneNumber(phoneNumber) ==
    IF phoneNumber = <<>> THEN "phone number is required"
    ELSE IF ~(/\ Len(phoneNumber) = 10
              /\ phoneNumber[1] = "0"
              /\ \A i \in 2..10 : phoneNumber[i] \in Digits)
         THEN "invalid phone number format: must be 10 digits starting with 0"
    ELSE NoError

(* ValidatePin with the pattern ^[0-9]{6}, the end anchor missing. *)
ValidatePin_Unanchored(pin) ==
    IF pin = <<>> THEN "PIN is required"
    ELSE IF ~(/\ Len(pin) >= 6
              /\ \A i \in 1..6 : pin[i] \in Digits)
         THEN "invalid PIN format: must be exactly 6 digits"
    ELSE NoError

(* service.ValidatePin: ^[0-9]{6}$ *)
ValidatePin(pin) ==
    IF pin = <<>> THEN "PIN is required"
    ELSE IF ~(/\ Len(pin) = 6
              /\ \A i \in 1..6 : pin[i] \in Digits)
         THEN "invalid PIN format: must be exactly 6 digits"
    ELSE NoError

----------------------------------------------------------------------------
(* State *)

VARIABLES
    now,          \* the clock, in seconds
    clockMoves,   \* how many times the clock has moved
    users,        \* the users table
    blacklist,    \* the token_blacklist table, a bag of rows
    proc,         \* the requests in flight, one per worker
    started,      \* how many requests have been started
    known,        \* the tokens handed out in responses so far
    rotated       \* bag of the refresh tokens for which Refresh returned a pair

vars == <<now, clockMoves, users, blacklist, proc, started, known, rotated>>

----------------------------------------------------------------------------
(* user.repository *)

(* repository.FindByPhoneNumber; dbOK is FALSE when the query fails. *)
FindByPhoneNumber(tbl, phoneNumber, dbOK) ==
    IF phoneNumber = <<>>
    THEN [err |-> "phone number cannot be empty", user |-> NoUser]
    ELSE IF ~dbOK
    THEN [err |-> "failed to query user by phone number", user |-> NoUser]
    ELSE IF ~(\E u \in tbl : u.PhoneNumber = phoneNumber)
    THEN [err |-> "user with phone number not found", user |-> NoUser]
    ELSE [err |-> NoError,
          user |-> CHOOSE u \in tbl : u.PhoneNumber = phoneNumber]

(* repository.UpdateLastLogin: the table after the call and the error. *)
UpdateLastLogin(tbl, userID, dbOK, t) ==
    IF userID = NilUUID
    THEN [err |-> "user ID cannot be empty", users |-> tbl]
    ELSE IF ~dbOK
    THEN [err |-> "failed to update last login", users |-> tbl]
    ELSE IF ~(\E u \in tbl : u.ID = userID)
    THEN [err |-> "user with ID not found", users |-> tbl]
    ELSE [err |-> NoError,
          users |-> { IF u.ID = userID
                      THEN [u EXCEPT !.LastLoginAt = t, !.UpdatedAt = t]
                      ELSE u : u \in tbl }]

----------------------------------------------------------------------------
(* auth.blacklistRepository over the token_blacklist table of               *)
(* DB.CreateTables: no uniqueness constraint on token, a foreign key on     *)
(* user_id and a CHECK on token_type.                                       *)

BlacklistRow(token, userID, tokenType, expiresAt, t) ==
    [token |-> token, user_id |-> userID, token_type |-> tokenType,
     expires_at |-> expiresAt, blacklisted_at |-> t]

(* BlacklistToken written as an upsert on the token column: an existing    *)
(* row of the token is replaced.                                            *)
RepoBlacklistToken_Upsert(bl, tbl, token, userID, tokenType, expiresAt, dbOK, t) ==
    IF token.form = "empty"
    THEN [err |-> "token cannot be empty", blacklist |-> bl]
    ELSE IF userID = ""
    THEN [err |-> "user ID cannot be empty", blacklist |-> bl]
    ELSE IF tokenType = ""
    THEN [err |-> "token type cannot be empty", blacklist |-> bl]
    ELSE IF \/ ~dbOK
            \/ tokenType \notin {"access", "refresh"}
            \/ ~(\E u \in tbl : u.ID = userID)
    THEN [err |-> "failed to blacklist token", blacklist |-> bl]
    ELSE [err |-> NoError,
          blacklist |-> SetToBag({ row \in BagToSet(bl) : row.token # token }
                                 \cup {BlacklistRow(token, userID, tokenType,
                                                    expiresAt, t)})]

(* blacklistRepository.BlacklistToken: the table after the call and the    *)
(* error.                                                                   *)
RepoBlacklistToken(bl, tbl, token, userID, tokenType, expiresAt, dbOK, t) ==
    IF token.form = "empty"
    THEN [err |-> "token cannot be empty", blacklist |-> bl]
    ELSE IF userID = ""
    THEN [err |-> "user ID cannot be empty", blacklist |-> bl]
    ELSE IF tokenType = ""
    THEN [err |-> "token type cannot be empty", blacklist |-> bl]
    ELSE IF \/ ~dbOK
            \/ tokenType \notin {"access", "refresh"}
            \/ ~(\E u \in tbl : u.ID = userID)
    THEN [err |-> "failed to blacklist token", blacklist |-> bl]
    ELSE [err |-> NoError,
          blacklist |-> bl (+) SetToBag({BlacklistRow(token, userID, tokenType,
                                                      expiresAt, t)})]

(* IsTokenBlacklisted without the expires_at > NOW() filter. *)
RepoIsTokenBlacklisted_NoExpiryFilter(bl, token, dbOK, t) ==
    IF token.form = "empty"
    THEN [err |-> "token cannot be empty", exists |-> FALSE]
    ELSE IF ~dbOK
    THEN [err |-> "failed to check token blacklist status", exists |-> FALSE]
    ELSE [err |-> NoError,
          exists |-> \E row \in BagToSet(bl) : row.token = token]

(* blacklistRepository.IsTokenBlacklisted:                                  *)
(* EXISTS(SELECT 1 FROM token_blacklist WHERE token = $1 AND expires_at > NOW()) *)
RepoIsTokenBlacklisted(bl, token, dbOK, t) ==
    IF token.form = "empty"
    THEN [err |-> "token cannot be empty", exists |-> FALSE]
    ELSE IF ~dbOK
    THEN [err |-> "failed to check token blacklist status", exists |-> FALSE]
    ELSE [err |-> NoError,
          exists |-> \E row \in BagToSet(bl) :
                        /\ row.token = token
                        /\ row.expires_at > t]

----------------------------------------------------------------------------
(* auth.service *)

(* service.IsTokenBlacklisted *)
IsTokenBlacklisted(bl, token, dbOK, t) ==
    IF token.form = "empty"
    THEN [err |-> "token is required", exists |-> FALSE]
    ELSE RepoIsTokenBlacklisted(bl, token, dbOK, t)

(* ValidateToken without the blacklist lookup. *)
ValidateToken_NoBlacklistCheck(bl, token, dbOK, t, t1, t2) ==
    ParseToken(token, t1, t2)

(* service.ValidateToken: the blacklist is read at t, the token is parsed  *)
(* at t1 and its expiry re-checked at t2.                                   *)
ValidateToken(bl, token, dbOK, t, t1, t2) ==
    LET b == IsTokenBlacklisted(bl, token, dbOK, t) IN
    IF b.err # NoError
    THEN [err |-> "failed to check token blacklist status", claims |-> NoClaims]
    ELSE IF b.exists
    THEN [err |-> "token has been invalidated", claims |-> NoClaims]
    ELSE ParseToken(token, t1, t2)

(* BlacklistToken inserting the row without parsing the token first. *)
BlacklistToken_NoParse(bl, tbl, token, dbOK, t1, t2) ==
    IF token.form = "empty"
    THEN [err |-> "token is required", blacklist |-> bl]
    ELSE LET ins == RepoBlacklistToken(bl, tbl, token, token.UserID,
                                       token.TokenType, token.ExpiresAt, dbOK, t2) IN
         IF ins.err # NoError
         THEN [err |-> "failed to blacklist token", blacklist |-> bl]
         ELSE [err |-> NoError, blacklist |-> ins.blacklist]

(* BlacklistToken recording the access-token lifetime from now as expiry. *)
BlacklistToken_FixedExpiry(bl, tbl, token, dbOK, t1, t2) ==
    IF token.form = "empty"
    THEN [err |-> "token is required", blacklist |-> bl]
    ELSE LET parsed == ParseToken(token, t1, t2) IN
         IF parsed.err # NoError
         THEN [err |-> "invalid token", blacklist |-> bl]
         ELSE LET ins == RepoBlacklistToken(bl, tbl, token, parsed.claims.UserID,
                                            parsed.claims.TokenType,
                                            t2 + AccessTTL, dbOK, t2) IN
              IF ins.err # NoError
              THEN [err |-> "failed to blacklist token", blacklist |-> bl]
              ELSE [err |-> NoError, blacklist |-> ins.blacklist]

(* service.BlacklistToken: the table after the call and the error. *)
BlacklistToken(bl, tbl, token, dbOK, t1, t2) ==
    IF token.form = "empty"
    THEN [err |-> "token is required", blacklist |-> bl]
    ELSE LET parsed == ParseToken(token, t1, t2) IN
         IF parsed.err # NoError
         THEN [err |-> "invalid token", blacklist |-> bl]
         ELSE LET ins == RepoBlacklistToken(bl, tbl, token, parsed.claims.UserID,
                                            parsed.claims.TokenType,
                                            parsed.claims.ExpiresAt, dbOK, t2) IN
              IF ins.err # NoError
              THEN [err |-> "failed to blacklist token", blacklist |-> bl]
              ELSE [err |-> NoError, blacklist |-> ins.blacklist]

(* AuthenticateUser looking the phone number up before validating. *)
AuthenticateUser_LookupFirst(tbl, phoneNumber, pin, dbOK) ==
    LET found == FindByPhoneNumber(tbl, phoneNumber, dbOK) IN
    IF found.err # NoError
    THEN [err |-> "invalid credentials", user |-> NoUser, read |-> TRUE]
    ELSE IF ValidatePhoneNumber(phoneNumber) # NoError
    THEN [err |-> ValidatePhoneNumber(phoneNumber), user |-> NoUser, read |-> TRUE]
    ELSE IF ValidatePin(pin) # NoError
    THEN [err |-> ValidatePin(pin), user |-> NoUser, read |-> TRUE]
    ELSE IF CheckPin(found.user.PinHash, pin) # NoError
    THEN [err |-> "invalid credentials", user |-> NoUser, read |-> TRUE]
    ELSE [err |-> NoError, user |-> found.user, read |-> TRUE]

(* AuthenticateUser handing the lookup error to the caller. *)
AuthenticateUser_LeaksLookupError(tbl, phoneNumber, pin, dbOK) ==
    IF ValidatePhoneNumber(phoneNumber) # NoError
    THEN [err |-> ValidatePhoneNumber(phoneNumber), user |-> NoUser, read |-> FALSE]
    ELSE IF ValidatePin(pin) # NoError
    THEN [err |-> ValidatePin(pin), user |-> NoUser, read |-> FALSE]
    ELSE LET found == FindByPhoneNumber(tbl, phoneNumber, dbOK) IN
         IF found.err # NoError
         THEN [err |-> found.err, user |-> NoUser, read |-> TRUE]
         ELSE IF CheckPin(found.user.PinHash, pin) # NoError
         THEN [err |-> "invalid credentials", user |-> NoUser, read |-> TRUE]
         ELSE [err |-> NoError, user |-> found.user, read |-> TRUE]

(* AuthenticateUser without the PIN comparison. *)
AuthenticateUser_NoPinCheck(tbl, phoneNumber, pin, dbOK) ==
    IF ValidatePhoneNumber(phoneNumber) # NoError
    THEN [err |-> ValidatePhoneNumber(phoneNumber), user |-> NoUser, read |-> FALSE]
    ELSE IF ValidatePin(pin) # NoError
    THEN [err |-> ValidatePin(pin), user |-> NoUser, read |-> FALSE]
    ELSE LET found == FindByPhoneNumber(tbl, phoneNumber, dbOK) IN
         IF found.err # NoError
         THEN [err |-> "invalid credentials", user |-> NoUser, read |-> TRUE]
         ELSE [err |-> NoError, user |-> found.user, read |-> TRUE]

(* service.AuthenticateUser up to the PIN check (no store write so far). *)
AuthenticateUser(tbl, phoneNumber, pin, dbOK) ==
    IF ValidatePhoneNumber(phoneNumber) # NoError
    THEN [err |-> ValidatePhoneNumber(phoneNumber), user |-> NoUser, read |-> FALSE]
    ELSE IF ValidatePin(pin) # NoError
    THEN [err |-> ValidatePin(pin), user |-> NoUser, read |-> FALSE]
    ELSE LET found == FindByPhoneNumber(tbl, phoneNumber, dbOK) IN
         IF found.err # NoError
         THEN [err |-> "invalid credentials", user |-> NoUser, read |-> TRUE]
         ELSE IF CheckPin(found.user.PinHash, pin) # NoError
         THEN [err |-> "invalid credentials", user |-> NoUser, read |-> TRUE]
         ELSE [err |-> NoError, user |-> found.user, read |-> TRUE]

----------------------------------------------------------------------------
(* pkg/response *)

Response(success, status, code, message, access, refresh, expiresIn, userID, phone) ==
    [Success |-> success, Status |-> status, Code |-> code, Message |-> message,
     AccessToken |-> access, RefreshToken |-> refresh, ExpiresIn |-> expiresIn,
     UserID |-> userID, PhoneNumber |-> phone]

NoResponse == Response(FALSE, 0, "", "", EmptyToken, EmptyToken, 0, NilUUID, <<>>)

SendError(status, code, message) ==
    Response(FALSE, status, code, message, EmptyToken, EmptyToken, 0, NilUUID, <<>>)

SendLoginSuccess(accessToken, refreshToken, expiresIn, userID, phoneNumber) ==
    Response(TRUE, 200, "", "", accessToken, refreshToken, expiresIn, userID, phoneNumber)

SendSuccess(message) ==
    Response(TRUE, 200, "", message, EmptyToken, EmptyToken, 0, NilUUID, <<>>)

SendValidationError(message) == SendError(400, "VALIDATION_ERROR", message)

SendAuthenticationError(message) == SendError(401, "AUTHENTICATION_ERROR", message)

SendInternalServerError(message) == SendError(500, "INTERNAL_SERVER_ERROR", message)

SendTokenExpiredError(message) == SendError(401, "TOKEN_EXPIRED", message)

----------------------------------------------------------------------------
(* auth.JWTProtected: the response when the request is rejected, else the  *)
(* values placed in the request context.                                    *)

NoLocals == [set |-> FALSE, user_id |-> NilUUID, phone_number |-> <<>>,
             token_claims |-> NoClaims]

(* The error classification missing the "invalidated" case. *)
Contains_ExpiredOnly(err, word) ==
    CASE word = "expired" -> err = "token has expired"
      [] OTHER -> FALSE

Contains(err, word) ==
    CASE word = "expired" -> err = "token has expired"
      [] word = "invalidated" -> err = "token has been invalidated"
      [] OTHER -> FALSE

(* The middleware without the token type check. *)
JWTProtected_NoTypeCheck(bl, hdr, token, dbOK, t, t1, t2) ==
    IF hdr = "none"
    THEN [next |-> FALSE, locals |-> NoLocals, err |-> "",
          resp |-> SendAuthenticationError("Authorization header is required")]
    ELSE IF hdr # "bearer"
    THEN [next |-> FALSE, locals |-> NoLocals, err |-> "",
          resp |-> SendAuthenticationError("Invalid authorization header format")]
    ELSE IF token.form = "empty"
    THEN [next |-> FALSE, locals |-> NoLocals, err |-> "",
          resp |-> SendAuthenticationError("Access token is required")]
    ELSE LET v == ValidateToken(bl, token, dbOK, t, t1, t2) IN
         IF v.err # NoError
         THEN [next |-> FALSE, locals |-> NoLocals, err |-> v.err,
               resp |-> IF Contains(v.err, "expired")
                        THEN SendTokenExpiredError("Access token has expired")
                        ELSE IF Contains(v.err, "invalidated")
                        THEN SendAuthenticationError("Token has been invalidated")
                        ELSE SendAuthenticationError("Invalid access token")]
         ELSE [next |-> TRUE, err |-> "", resp |-> NoResponse,
               locals |-> [set |-> TRUE, user_id |-> v.claims.UserID,
                           phone_number |-> v.claims.PhoneNumber,
                           token_claims |-> v.claims]]

JWTProtected(bl, hdr, token, dbOK, t, t1, t2) ==
    IF hdr = "none"
    THEN [next |-> FALSE, locals |-> NoLocals, err |-> "",
          resp |-> SendAuthenticationError("Authorization header is required")]
    ELSE IF hdr # "bearer"
    THEN [next |-> FALSE, locals |-> NoLocals, err |-> "",
          resp |-> SendAuthenticationError("Invalid authorization header format")]
    ELSE IF token.form = "empty"
    THEN [next |-> FALSE, locals |-> NoLocals, err |-> "",
          resp |-> SendAuthenticationError("Access token is required")]
    ELSE LET v == ValidateToken(bl, token, dbOK, t, t1, t2) IN
         IF v.err # NoError
         THEN [next |-> FALSE, locals |-> NoLocals, err |-> v.err,
               resp |-> IF Contains(v.err, "expired")
                        THEN SendTokenExpiredError("Access token has expired")
                        ELSE IF Contains(v.err, "invalidated")
                        THEN SendAuthenticationError("Token has been invalidated")
                        ELSE SendAuthenticationError("Invalid access token")]
         ELSE IF v.claims.TokenType # "access"
         THEN [next |-> FALSE, locals |-> NoLocals, err |-> "",
               resp |-> SendAuthenticationError("Invalid token type: access token required")]
         ELSE [next |-> TRUE, err |-> "", resp |-> NoResponse,
               locals |-> [set |-> TRUE, user_id |-> v.claims.UserID,
                           phone_number |-> v.claims.PhoneNumber,
                           token_claims |-> v.claims]]

----------------------------------------------------------------------------
(* Requests *)

IdleProc ==
    [op |-> "idle", pc |-> "idle",
     phone |-> <<>>, pin |-> <<>>,
     hdr |-> "none", token |-> EmptyToken, rtoken |-> EmptyToken,
     user |-> NoUser, claims |-> NoClaims, locals |-> NoLocals,
     handlerRan |-> FALSE, at |-> Never, dbFailed |-> FALSE,
     resp |-> NoResponse]

Bodies == {"json", "garbage"}

Headers == {"none", "basic", "bearer"}

(* The token strings a client can present. *)
TokenInputs == known \cup CraftedTokens

Free(p) == proc[p].pc = "idle"

(* Workers are interchangeable: a new request takes the first free one.     *)
(* With overlap = FALSE requests are handled one after another.             *)
CanStart(p, overlap) ==
    /\ started < MaxRequests
    /\ Free(p)
    /\ \A q \in Procs : q < p => ~Free(q)
    /\ overlap \/ \A q \in Procs : Free(q)

(* A request of kind op arrives and gets a fresh worker record. *)
NewRequest(op) == [IdleProc EXCEPT !.op = op]

(* The request is answered: the worker keeps the operation, what was        *)
(* presented, when the token was last validated, whether a store call       *)
(* failed, and the response until the client has received it; the other    *)
(* locals go out of scope.                                                  *)
Done(req, r) ==
    [IdleProc EXCEPT !.op = req.op, !.pc = "done",
                     !.phone = req.phone, !.pin = req.pin, !.token = req.token,
                     !.handlerRan = req.handlerRan, !.locals = req.locals,
                     !.at = req.at, !.dbFailed = req.dbFailed,
                     !.rtoken = req.rtoken, !.hdr = req.hdr,
                     !.resp = r]

Init ==
    /\ now = 0
    /\ clockMoves = 0
    /\ users = InitialUsers
    /\ blacklist = EmptyBag
    /\ proc = [p \in Procs |-> IdleProc]
    /\ started = 0
    /\ known = {}
    /\ rotated = EmptyBag

(* Time passes between steps.  The clock moves to the neighbourhood of the  *)
(* expiry of a token that has been handed out.  Time passing while a        *)
(* response waits to be received is the same as time passing after it was   *)
(* received.                                                                *)
Instants ==
    { tok.ExpiresAt + e : tok \in known, e \in {-1, 0, 1} }

Advance ==
    /\ clockMoves < MaxClockMoves
    /\ \A p \in Procs : proc[p].pc # "done"
    /\ \E t \in Instants :
          /\ t > now
          /\ now' = t
    /\ clockMoves' = clockMoves + 1
    /\ UNCHANGED <<users, blacklist, proc, started, known, rotated>>

(* The client receives the response and the worker is released. *)
Receive(p) ==
    /\ proc[p].pc = "done"
    /\ proc' = [proc EXCEPT ![p] = IdleProc]
    /\ UNCHANGED <<now, clockMoves, users, blacklist, started, known, rotated>>

----------------------------------------------------------------------------
(* POST /auth/login : handler.Login *)

(* handler.Login turning a login away while another login for the same      *)
(* phone number is being handled.                                           *)
LoginAuthenticate_OnePerPhone(p, overlap) ==
    /\ CanStart(p, overlap)
    /\ \E body \in Bodies, phone \in PhoneInputs, pin \in PinInputs, dbOK \in BOOLEAN :
          LET a == AuthenticateUser(users, phone, pin, dbOK)
              req == [NewRequest("login") EXCEPT !.phone = phone, !.pin = pin,
                                                 !.dbFailed = a.read /\ ~dbOK]
              busy == \E q \in Procs \ {p} :
                         /\ proc[q].op = "login"
                         /\ proc[q].pc \in {"l_update", "l_generate"}
                         /\ proc[q].phone = phone IN
          /\ body # "json" => phone = <<>> /\ pin = <<>>
          /\ ~a.read => dbOK
          /\ proc' = [proc EXCEPT ![p] =
                IF body # "json"
                THEN Done(req, SendValidationError("Invalid request body"))
                ELSE IF phone = <<>>
                THEN Done(req, SendValidationError("Phone number is required"))
                ELSE IF pin = <<>>
                THEN Done(req, SendValidationError("PIN is required"))
                ELSE IF a.err # NoError \/ busy
                THEN Done(req, SendAuthenticationError("invalid credentials"))
                ELSE [req EXCEPT !.pc = "l_update", !.user = a.user]]
    /\ started' = started + 1
    /\ UNCHANGED <<now, clockMoves, users, blacklist, known, rotated>>

(* A login request arrives and handler.Login runs up to the PIN check of    *)
(* service.AuthenticateUser.                                                *)
LoginAuthenticate(p, overlap) ==
    /\ CanStart(p, overlap)
    /\ \E body \in Bodies, phone \in PhoneInputs, pin \in PinInputs, dbOK \in BOOLEAN :
          LET a == AuthenticateUser(users, phone, pin, dbOK)
              req == [NewRequest("login") EXCEPT !.phone = phone, !.pin = pin,
                                                 !.dbFailed = a.read /\ ~dbOK] IN
          /\ body # "json" => phone = <<>> /\ pin = <<>>
          /\ ~a.read => dbOK
          /\ proc' = [proc EXCEPT ![p] =
                IF body # "json"
                THEN Done(req, SendValidationError("Invalid request body"))
                ELSE IF phone = <<>>
                THEN Done(req, SendValidationError("Phone number is required"))
                ELSE IF pin = <<>>
                THEN Done(req, SendValidationError("PIN is required"))
                ELSE IF a.err # NoError
                THEN Done(req, SendAuthenticationError(a.err))
                ELSE [req EXCEPT !.pc = "l_update", !.user = a.user]]
    /\ started' = started + 1
    /\ UNCHANGED <<now, clockMoves, users, blacklist, known, rotated>>

(* AuthenticateUser returning the error of the last-login update. *)
LoginUpdateLastLogin_FailsLogin(p) ==
    /\ proc[p].pc = "l_update"
    /\ \E dbOK \in BOOLEAN :
          LET u == UpdateLastLogin(users, proc[p].user.ID, dbOK, now)
              req == [proc[p] EXCEPT !.dbFailed = @ \/ ~dbOK] IN
          /\ users' = u.users
          /\ proc' = [proc EXCEPT ![p] =
                IF u.err # NoError
                THEN Done(req, SendAuthenticationError("invalid credentials"))
                ELSE [req EXCEPT !.pc = "l_generate"]]
    /\ UNCHANGED <<now, clockMoves, blacklist, started, known, rotated>>

(* service.AuthenticateUser: the last-login update, whose error is dropped. *)
LoginUpdateLastLogin(p) ==
    /\ proc[p].pc = "l_update"
    /\ \E dbOK \in BOOLEAN :
          /\ users' = UpdateLastLogin(users, proc[p].user.ID, dbOK, now).users
          /\ proc' = [proc EXCEPT ![p].pc = "l_generate",
                                  ![p].dbFailed = @ \/ ~dbOK]
    /\ UNCHANGED <<now, clockMoves, blacklist, started, known, rotated>>

(* The six time.Now() reads of one service.GenerateTokens call. *)
ClockReads == [i \in 1..6 |-> now]

(* handler.Login: service.GenerateTokens and the response. *)
LoginGenerate(p) ==
    /\ proc[p].pc = "l_generate"
    /\ LET u == proc[p].user
           tokens == GenerateTokens(u.ID, u.PhoneNumber, ClockReads) IN
       /\ proc' = [proc EXCEPT ![p] =
             Done(proc[p], SendLoginSuccess(tokens.AccessToken, tokens.RefreshToken,
                                            tokens.ExpiresIn, u.ID, u.PhoneNumber))]
       /\ known' = known \cup {tokens.AccessToken, tokens.RefreshToken}
    /\ UNCHANGED <<now, clockMoves, users, blacklist, started, rotated>>

----------------------------------------------------------------------------
(* POST /auth/refresh : handler.Refresh *)

(* handler.Refresh without the token type check. *)
RefreshChecks_NoTypeCheck(bl, body, tok, dbOK, t) ==
    LET v == ValidateToken(bl, tok, dbOK, t, t, t) IN
    IF body # "json"
    THEN [resp |-> SendValidationError("Invalid request body"), claims |-> NoClaims]
    ELSE IF tok.form = "empty"
    THEN [resp |-> SendValidationError("Refresh token is required"), claims |-> NoClaims]
    ELSE IF v.err # NoError
    THEN [resp |-> SendAuthenticationError("Invalid or expired refresh token"),
          claims |-> NoClaims]
    ELSE [resp |-> NoResponse, claims |-> v.claims]

(* handler.Refresh up to the token type check: the response when the        *)
(* request is rejected there, else the claims of the refresh token.         *)
RefreshChecks(bl, body, tok, dbOK, t) ==
    LET v == ValidateToken(bl, tok, dbOK, t, t, t) IN
    IF body # "json"
    THEN [resp |-> SendValidationError("Invalid request body"), claims |-> NoClaims]
    ELSE IF tok.form = "empty"
    THEN [resp |-> SendValidationError("Refresh token is required"), claims |-> NoClaims]
    ELSE IF v.err # NoError
    THEN [resp |-> SendAuthenticationError("Invalid or expired refresh token"),
          claims |-> NoClaims]
    ELSE IF v.claims.TokenType # "refresh"
    THEN [resp |-> SendAuthenticationError("Invalid token type"), claims |-> NoClaims]
    ELSE [resp |-> NoResponse, claims |-> v.claims]

(* A refresh request arrives and handler.Refresh runs up to the token type  *)
(* check.                                                                   *)
RefreshValidate(p, overlap) ==
    /\ CanStart(p, overlap)
    /\ \E body \in Bodies, tok \in TokenInputs, dbOK \in BOOLEAN :
          LET called == body = "json" /\ tok.form # "empty"
              req == [NewRequest("refresh") EXCEPT
                         !.token = tok,
                         !.at = IF called THEN now ELSE Never,
                         !.dbFailed = called /\ ~dbOK]
              c == RefreshChecks(blacklist, body, tok, dbOK, now) IN
          /\ body # "json" => tok = EmptyToken
          /\ ~called => dbOK
          /\ proc' = [proc EXCEPT ![p] =
                IF c.resp # NoResponse
                THEN Done(req, c.resp)
                ELSE [req EXCEPT !.pc = "r_blacklist", !.claims = c.claims]]
    /\ started' = started + 1
    /\ UNCHANGED <<now, clockMoves, users, blacklist, known, rotated>>

(* handler.Refresh going on to issue tokens without blacklisting the old    *)
(* refresh token.                                                           *)
RefreshBlacklist_Skipped(p) ==
    /\ proc[p].pc = "r_blacklist"
    /\ proc' = [proc EXCEPT ![p].pc = "r_generate"]
    /\ UNCHANGED <<now, clockMoves, users, blacklist, started, known, rotated>>

(* handler.Refresh going on to issue tokens when BlacklistToken failed. *)
RefreshBlacklist_IgnoresError(p) ==
    /\ proc[p].pc = "r_blacklist"
    /\ \E dbOK \in BOOLEAN :
          LET b == BlacklistToken(blacklist, users, proc[p].token, dbOK, now, now)
              req == [proc[p] EXCEPT !.dbFailed =
                         @ \/ (~dbOK /\ ParseToken(proc[p].token, now, now).err = NoError)] IN
          /\ blacklist' = b.blacklist
          /\ proc' = [proc EXCEPT ![p] = [req EXCEPT !.pc = "r_generate"]]
    /\ UNCHANGED <<now, clockMoves, users, started, known, rotated>>

(* handler.Refresh: blacklist the old refresh token. *)
RefreshBlacklist(p) ==
    /\ proc[p].pc = "r_blacklist"
    /\ \E dbOK \in BOOLEAN :
          LET b == BlacklistToken(blacklist, users, proc[p].token, dbOK, now, now)
              req == [proc[p] EXCEPT !.dbFailed =
                         @ \/ (~dbOK /\ ParseToken(proc[p].token, now, now).err = NoError)] IN
          /\ blacklist' = b.blacklist
          /\ proc' = [proc EXCEPT ![p] =
                IF b.err # NoError
                THEN Done(req, SendInternalServerError(
                                  "Failed to invalidate old refresh token"))
                ELSE [req EXCEPT !.pc = "r_generate"]]
    /\ UNCHANGED <<now, clockMoves, users, started, known, rotated>>

(* handler.Refresh issuing the pair for its user variable, which only      *)
(* handler.Login fills, instead of the claims.                              *)
RefreshGenerate_ZeroUser(p) ==
    /\ proc[p].pc = "r_generate"
    /\ LET u == proc[p].user
           tokens == GenerateTokens(u.ID, u.PhoneNumber, ClockReads) IN
       /\ proc' = [proc EXCEPT ![p] =
             Done(proc[p], SendLoginSuccess(tokens.AccessToken, tokens.RefreshToken,
                                            tokens.ExpiresIn, u.ID, u.PhoneNumber))]
       /\ known' = known \cup {tokens.AccessToken, tokens.RefreshToken}
    /\ rotated' = rotated (+) SetToBag({proc[p].token})
    /\ UNCHANGED <<now, clockMoves, users, blacklist, started>>

(* handler.Refresh recording the refresh as a login of the user. *)
RefreshGenerate_TouchesLastLogin(p) ==
    /\ proc[p].pc = "r_generate"
    /\ LET c == proc[p].claims
           tokens == GenerateTokens(c.UserID, c.PhoneNumber, ClockReads) IN
       /\ proc' = [proc EXCEPT ![p] =
             Done(proc[p], SendLoginSuccess(tokens.AccessToken, tokens.RefreshToken,
                                            tokens.ExpiresIn, c.UserID, c.PhoneNumber))]
       /\ known' = known \cup {tokens.AccessToken, tokens.RefreshToken}
       /\ users' = UpdateLastLogin(users, c.UserID, TRUE, now).users
    /\ rotated' = rotated (+) SetToBag({proc[p].token})
    /\ UNCHANGED <<now, clockMoves, blacklist, started>>

(* handler.Refresh: service.GenerateTokens and the response. *)
RefreshGenerate(p) ==
    /\ proc[p].pc = "r_generate"
    /\ LET c == proc[p].claims
           tokens == GenerateTokens(c.UserID, c.PhoneNumber, ClockReads) IN
       /\ proc' = [proc EXCEPT ![p] =
             Done(proc[p], SendLoginSuccess(tokens.AccessToken, tokens.RefreshToken,
                                            tokens.ExpiresIn, c.UserID, c.PhoneNumber))]
       /\ known' = known \cup {tokens.AccessToken, tokens.RefreshToken}
    /\ rotated' = rotated (+) SetToBag({proc[p].token})
    /\ UNCHANGED <<now, clockMoves, users, blacklist, started>>

----------------------------------------------------------------------------
(* GET /protected/profile : JWTProtected, then the profile handler *)

ProtectedRoute(p, overlap) ==
    /\ CanStart(p, overlap)
    /\ \E hdr \in Headers, tok \in TokenInputs, dbOK \in BOOLEAN :
          LET called == hdr = "bearer" /\ tok.form # "empty"
              req == [NewRequest("protected") EXCEPT
                         !.hdr = hdr, !.token = tok,
                         !.at = IF called THEN now ELSE Never,
                         !.dbFailed = called /\ ~dbOK]
              m == JWTProtected(blacklist, hdr, tok, dbOK, now, now, now) IN
          /\ hdr # "bearer" => tok = EmptyToken
          /\ ~called => dbOK
          /\ proc' = [proc EXCEPT ![p] =
                IF ~m.next
                THEN Done(req, m.resp)
                ELSE Done([req EXCEPT !.locals = m.locals, !.handlerRan = TRUE],
                          Response(TRUE, 200, "", "Profile retrieved successfully",
                                   EmptyToken, EmptyToken, 0,
                                   m.locals.user_id, m.locals.phone_number))]
    /\ started' = started + 1
    /\ UNCHANGED <<now, clockMoves, users, blacklist, known, rotated>>

----------------------------------------------------------------------------
(* POST /auth/logout : JWTProtected, then handler.Logout *)

(* The logout route without the middleware: handler.Logout checks the       *)
(* header itself and answers with validation errors.                        *)
LogoutMiddleware_HandlerOnly(p, overlap) ==
    /\ CanStart(p, overlap)
    /\ \E hdr \in Headers, tok \in TokenInputs :
          LET req == [NewRequest("logout") EXCEPT !.hdr = hdr, !.token = tok] IN
          /\ hdr # "bearer" => tok = EmptyToken
          /\ IF hdr = "none"
             THEN proc' = [proc EXCEPT ![p] =
                     Done(req, SendValidationError("Authorization header is required"))]
             ELSE IF hdr # "bearer"
             THEN proc' = [proc EXCEPT ![p] =
                     Done(req, SendValidationError("Invalid authorization header format"))]
             ELSE IF tok.form = "empty"
             THEN proc' = [proc EXCEPT ![p] =
                     Done(req, SendValidationError("Access token is required"))]
             ELSE \E body \in Bodies, rtok \in known \cup {EmptyToken, MalformedToken} :
                     /\ body # "json" => rtok = EmptyToken
                     /\ proc' = [proc EXCEPT ![p] =
                           [req EXCEPT !.pc = "lo_validate", !.handlerRan = TRUE,
                                       !.rtoken = rtok]]
    /\ started' = started + 1
    /\ UNCHANGED <<now, clockMoves, users, blacklist, known, rotated>>

(* A logout request arrives and passes the JWTProtected middleware in front *)
(* of the route.                                                            *)
LogoutMiddleware(p, overlap) ==
    /\ CanStart(p, overlap)
    /\ \E hdr \in Headers, tok \in TokenInputs, dbOK \in BOOLEAN :
          LET called == hdr = "bearer" /\ tok.form # "empty"
              req == [NewRequest("logout") EXCEPT
                         !.hdr = hdr, !.token = tok,
                         !.at = IF called THEN now ELSE Never,
                         !.dbFailed = called /\ ~dbOK]
              m == JWTProtected(blacklist, hdr, tok, dbOK, now, now, now) IN
          /\ hdr # "bearer" => tok = EmptyToken
          /\ ~called => dbOK
          /\ IF ~m.next
             THEN proc' = [proc EXCEPT ![p] = Done(req, m.resp)]
             ELSE \* the body matters only to the handler
                  \E body \in Bodies, rtok \in known \cup {EmptyToken, MalformedToken} :
                     /\ body # "json" => rtok = EmptyToken
                     /\ proc' = [proc EXCEPT ![p] =
                           [req EXCEPT !.pc = "lo_validate", !.locals = m.locals,
                                       !.handlerRan = TRUE, !.rtoken = rtok]]
    /\ started' = started + 1
    /\ UNCHANGED <<now, clockMoves, users, blacklist, known, rotated>>

(* handler.Logout up to the token type check.  The middleware has let the   *)
(* request through, so the header is "Bearer <token>" with a token.         *)
LogoutValidate(p) ==
    /\ proc[p].pc = "lo_validate"
    /\ \E dbOK \in BOOLEAN :
          LET req == [proc[p] EXCEPT !.at = now, !.dbFailed = @ \/ ~dbOK]
              v == ValidateToken(blacklist, req.token, dbOK, now, now, now) IN
          proc' = [proc EXCEPT ![p] =
             IF req.token.form = "empty"
             THEN Done(req, SendValidationError("Access token is required"))
             ELSE IF v.err # NoError
             THEN Done(req, SendAuthenticationError("Invalid or expired access token"))
             ELSE IF v.claims.TokenType # "access"
             THEN Done(req, SendAuthenticationError("Invalid token type"))
             ELSE [req EXCEPT !.pc = "lo_blacklist", !.claims = v.claims]]
    /\ UNCHANGED <<now, clockMoves, users, blacklist, started, known, rotated>>

(* handler.Logout going on to the refresh token when blacklisting the       *)
(* access token failed.                                                     *)
LogoutBlacklistAccess_IgnoresError(p) ==
    /\ proc[p].pc = "lo_blacklist"
    /\ \E dbOK \in BOOLEAN :
          LET b == BlacklistToken(blacklist, users, proc[p].token, dbOK, now, now)
              req == [proc[p] EXCEPT !.dbFailed =
                         @ \/ (~dbOK /\ ParseToken(proc[p].token, now, now).err = NoError)] IN
          /\ blacklist' = b.blacklist
          /\ proc' = [proc EXCEPT ![p] = [req EXCEPT !.pc = "lo_refresh"]]
    /\ UNCHANGED <<now, clockMoves, users, started, known, rotated>>

(* handler.Logout: blacklist the access token. *)
LogoutBlacklistAccess(p) ==
    /\ proc[p].pc = "lo_blacklist"
    /\ \E dbOK \in BOOLEAN :
          LET b == BlacklistToken(blacklist, users, proc[p].token, dbOK, now, now)
              req == [proc[p] EXCEPT !.dbFailed =
                         @ \/ (~dbOK /\ ParseToken(proc[p].token, now, now).err = NoError)] IN
          /\ blacklist' = b.blacklist
          /\ proc' = [proc EXCEPT ![p] =
                IF b.err # NoError
                THEN Done(req, SendInternalServerError(
                                  "Failed to invalidate access token"))
                ELSE [req EXCEPT !.pc = "lo_refresh"]]
    /\ UNCHANGED <<now, clockMoves, users, started, known, rotated>>

(* handler.Logout failing when the optional refresh token cannot be         *)
(* blacklisted.                                                             *)
LogoutBlacklistRefresh_FailsOnError(p) ==
    /\ proc[p].pc = "lo_refresh"
    /\ LET req == proc[p] IN
       IF req.rtoken.form # "empty"
       THEN \E dbOK \in BOOLEAN :
               LET b == BlacklistToken(blacklist, users, req.rtoken, dbOK, now, now)
                   failed == ~dbOK /\ ParseToken(req.rtoken, now, now).err = NoError IN
               /\ blacklist' = b.blacklist
               /\ proc' = [proc EXCEPT ![p] =
                     Done([req EXCEPT !.dbFailed = @ \/ failed],
                          IF b.err # NoError
                          THEN SendInternalServerError("Failed to invalidate refresh token")
                          ELSE SendSuccess("Logout successful"))]
       ELSE /\ blacklist' = blacklist
            /\ proc' = [proc EXCEPT ![p] = Done(req, SendSuccess("Logout successful"))]
    /\ UNCHANGED <<now, clockMoves, users, started, known, rotated>>

(* handler.Logout: blacklist the optional refresh token, dropping the      *)
(* error, and answer.                                                       *)
LogoutBlacklistRefresh(p) ==
    /\ proc[p].pc = "lo_refresh"
    /\ LET req == proc[p] IN
       IF req.rtoken.form # "empty"
       THEN \E dbOK \in BOOLEAN :
               LET failed == ~dbOK /\ ParseToken(req.rtoken, now, now).err = NoError IN
               /\ blacklist' = BlacklistToken(blacklist, users, req.rtoken, dbOK,
                                              now, now).blacklist
               /\ proc' = [proc EXCEPT ![p] =
                     Done([req EXCEPT !.dbFailed = @ \/ failed],
                          SendSuccess("Logout successful"))]
       ELSE /\ blacklist' = blacklist
            /\ proc' = [proc EXCEPT ![p] = Done(req, SendSuccess("Logout successful"))]
    /\ UNCHANGED <<now, clockMoves, users, started, known, rotated>>

----------------------------------------------------------------------------
(* Requests handled one after another. *)

Next ==
    \/ Advance
    \/ \E p \in Procs : LoginAuthenticate(p, FALSE)
    \/ \E p \in Procs : LoginUpdateLastLogin(p)
    \/ \E p \in Procs : LoginGenerate(p)
    \/ \E p \in Procs : RefreshValidate(p, FALSE)
    \/ \E p \in Procs : RefreshBlacklist(p)
    \/ \E p \in Procs : RefreshGenerate(p)
    \/ \E p \in Procs : ProtectedRoute(p, FALSE)
    \/ \E p \in Procs : LogoutMiddleware(p, FALSE)
    \/ \E p \in Procs : LogoutValidate(p)
    \/ \E p \in Procs : LogoutBlacklistAccess(p)
    \/ \E p \in Procs : LogoutBlacklistRefresh(p)
    \/ \E p \in Procs : Receive(p)

Spec == Init /\ [][Next]_vars

(* Requests overlapping on the workers. *)

NextConcurrent ==
    \/ Advance
    \/ \E p \in Procs : LoginAuthenticate(p, TRUE)
    \/ \E p \in Procs : LoginUpdateLastLogin(p)
    \/ \E p \in Procs : LoginGenerate(p)
    \/ \E p \in Procs : RefreshValidate(p, TRUE)
    \/ \E p \in Procs : RefreshBlacklist(p)
    \/ \E p \in Procs : RefreshGenerate(p)
    \/ \E p \in Procs : ProtectedRoute(p, TRUE)
    \/ \E p \in Procs : LogoutMiddleware(p, TRUE)
    \/ \E p \in Procs : LogoutValidate(p)
    \/ \E p \in Procs : LogoutBlacklistAccess(p)
    \/ \E p \in Procs : LogoutBlacklistRefresh(p)
    \/ \E p \in Procs : Receive(p)

SpecConcurrent == Init /\ [][NextConcurrent]_vars

(* Login requests overlapping on the workers. *)

NextLogins ==
    \/ Advance
    \/ \E p \in Procs : LoginAuthenticate(p, TRUE)
    \/ \E p \in Procs : LoginUpdateLastLogin(p)
    \/ \E p \in Procs : LoginGenerate(p)
    \/ \E p \in Procs : Receive(p)

SpecLogins == Init /\ [][NextLogins]_vars

----------------------------------------------------------------------------
(* Properties *)

(* The token strings that have a row in token_blacklist. *)
BlacklistedTokens == { row.token : row \in BagToSet(blacklist) }

(* A JWT signed with HS256 and the service's secret. *)
WellSigned(tok) == tok.form = "jwt" /\ tok.alg = "HS256" /\ tok.key = "secret"

(* The last ValidateToken call made for the request returned claims. *)
Accepted(req) ==
    \/ req.pc \in {"r_blacklist", "lo_validate", "lo_blacklist"}
    \/ req.pc = "done" /\ req.op = "protected" /\ req.handlerRan

(* C1: ValidateToken returns claims only for a token that, at the time of  *)
(* the call, has no blacklist row, is signed with the service's secret and  *)
(* whose expiresAt is not in the past: while requests are handled one after *)
(* another, no request whose token was just accepted holds a blacklisted,   *)
(* badly signed or expired token.                                           *)
C1_ValidateTokenAcceptsOnlyLive ==
    \A p \in Procs :
       Accepted(proc[p]) =>
          /\ proc[p].token \notin BlacklistedTokens
          /\ WellSigned(proc[p].token)
          /\ ~(proc[p].token.ExpiresAt < proc[p].at)
          /\ proc[p].at # Never

(* A token is accepted while other tokens are blacklisted. *)
C1_Witness ==
    \E p \in Procs : Accepted(proc[p]) /\ blacklist # EmptyBag

(* C2: Login returns a token pair only when the phone number has a stored   *)
(* credential whose hash the PIN verifies against; the tokens and the user  *)
(* block carry that credential's id and phone number; a failed login        *)
(* carries no token.                                                        *)
C2_LoginOnlyForVerifiedCredential ==
    \A p \in Procs :
       LET req == proc[p] IN
       /\ (req.op = "login" /\ req.pc \in {"l_update", "l_generate"}) =>
             /\ \E u \in users : /\ u.ID = req.user.ID
                                 /\ u.PhoneNumber = req.user.PhoneNumber
                                 /\ u.PinHash = req.user.PinHash
             /\ req.user.PhoneNumber = req.phone
             /\ CheckPin(req.user.PinHash, req.pin) = NoError
       /\ (req.op = "login" /\ req.pc = "done" /\ req.resp.Success) =>
             \E u \in users :
                /\ u.PhoneNumber = req.phone
                /\ CheckPin(u.PinHash, req.pin) = NoError
                /\ req.resp.UserID = u.ID
                /\ req.resp.PhoneNumber = u.PhoneNumber
                /\ \A tok \in {req.resp.AccessToken, req.resp.RefreshToken} :
                      /\ WellSigned(tok)
                      /\ tok.UserID = u.ID
                      /\ tok.PhoneNumber = u.PhoneNumber
                /\ req.resp.AccessToken.TokenType = "access"
                /\ req.resp.RefreshToken.TokenType = "refresh"
       /\ (req.op = "login" /\ req.pc = "done" /\ ~req.resp.Success) =>
             /\ req.resp.AccessToken = EmptyToken
             /\ req.resp.RefreshToken = EmptyToken

(* A login has returned a token pair. *)
C2_Witness ==
    \E p \in Procs :
       /\ proc[p].op = "login" /\ proc[p].pc = "done" /\ proc[p].resp.Success
       /\ proc[p].resp.AccessToken \in known

(* C3 as stated: once BlacklistToken has succeeded for a token, every later *)
(* ValidateToken call with it fails with "token has been invalidated", no   *)
(* matter how much time has passed (the blacklist lookup itself working).   *)
C3_RevokedForever ==
    \A tok \in BlacklistedTokens :
       ValidateToken(blacklist, tok, TRUE, now, now, now).err
          = "token has been invalidated"

(* C3 amended: once BlacklistToken has succeeded for a token, every later   *)
(* ValidateToken call with it fails: with "token has been invalidated"      *)
(* while the token's expiresAt is in the future, with "invalid token" from  *)
(* then on, and with "failed to check token blacklist status" when the      *)
(* lookup fails; it never returns claims.                                   *)
C3_RevokedNeverAccepted ==
    \A tok \in BlacklistedTokens :
       LET v == ValidateToken(blacklist, tok, TRUE, now, now, now)
           f == ValidateToken(blacklist, tok, FALSE, now, now, now) IN
       /\ v.err # NoError /\ v.claims = NoClaims
       /\ f.err = "failed to check token blacklist status" /\ f.claims = NoClaims
       /\ now < tok.ExpiresAt => v.err = "token has been invalidated"
       /\ now >= tok.ExpiresAt => v.err = "invalid token"

(* A blacklisted token has reached its expiry. *)
C3_Witness ==
    \E tok \in BlacklistedTokens : now >= tok.ExpiresAt

(* C4: with requests handled one after another, after a Refresh presenting  *)
(* R has returned a new pair, every later Refresh presenting R is rejected  *)
(* and issues no tokens: a request presenting an already rotated token      *)
(* never gets past validation, and R is rotated once.                       *)
C4_RotatedTokenRejected ==
    \A p \in Procs :
       (proc[p].op = "refresh" /\ BagIn(proc[p].token, rotated)) =>
          /\ proc[p].pc = "done"
          /\ CopiesIn(proc[p].token, rotated) = 1
          /\ ~proc[p].resp.Success =>
                /\ proc[p].resp.AccessToken = EmptyToken
                /\ proc[p].resp.RefreshToken = EmptyToken
                /\ proc[p].resp.Code = "AUTHENTICATION_ERROR"

(* A Refresh presenting an already rotated token has been rejected. *)
C4_Witness ==
    \E p \in Procs :
       /\ proc[p].op = "refresh" /\ proc[p].pc = "done"
       /\ ~proc[p].resp.Success
       /\ BagIn(proc[p].token, rotated)

(* C5 as stated: when several Refresh calls presenting the same refresh    *)
(* token overlap, at most one of them returns a token pair.                 *)
C5_AtMostOnePairPerRefreshToken ==
    \A tok \in BagToSet(rotated) : CopiesIn(tok, rotated) <= 1

(* C6: when BlacklistToken fails, Refresh answers with an internal error    *)
(* and issues no tokens; whenever Refresh is about to generate or has       *)
(* returned a pair, the blacklist row of the presented token is already     *)
(* written.                                                                 *)
C6_BlacklistBeforeGenerate ==
    /\ \A tok \in BagToSet(rotated) : tok \in BlacklistedTokens
    /\ \A p \in Procs :
          LET req == proc[p] IN
          req.op = "refresh" =>
             /\ (req.pc = "r_generate" \/ (req.pc = "done" /\ req.resp.Success)) =>
                   req.token \in BlacklistedTokens
             /\ (req.pc = "done" /\ req.token \notin BlacklistedTokens) =>
                   /\ ~req.resp.Success
                   /\ req.resp.AccessToken = EmptyToken
                   /\ req.resp.RefreshToken = EmptyToken
             /\ (req.pc = "done" /\ req.resp.Status = 500) =>
                   req.resp = SendInternalServerError(
                                 "Failed to invalidate old refresh token")

(* BlacklistToken failed for a validated refresh token and Refresh answered *)
(* with the internal error.                                                 *)
C6_Witness ==
    \E p \in Procs :
       /\ proc[p].op = "refresh" /\ proc[p].pc = "done"
       /\ proc[p].resp.Code = "INTERNAL_SERVER_ERROR"
       /\ proc[p].token \notin BlacklistedTokens
       /\ proc[p].token \notin BagToSet(rotated)

(* The token would be accepted by ValidateToken where the request stands:   *)
(* signed by the service, unexpired when validated, not blacklisted, and    *)
(* no store call of the request failed.                                     *)
Live(req) ==
    /\ WellSigned(req.token)
    /\ req.at # Never /\ req.at < req.token.ExpiresAt
    /\ req.token \notin BlacklistedTokens
    /\ ~req.dbFailed

(* C7: a refresh token presented as bearer token to a protected route or to *)
(* Logout, and an access token presented to Refresh, never get past the     *)
(* token type check, so nothing is blacklisted and no token is issued; when *)
(* the token is otherwise valid the answer is the token type error.         *)
C7_KindEnforcement ==
    \A p \in Procs :
       LET req == proc[p] IN
       /\ (req.op \in {"protected", "logout"} /\ req.token.TokenType = "refresh") =>
             /\ req.pc = "done"
             /\ ~req.handlerRan /\ ~req.resp.Success
             /\ req.resp.AccessToken = EmptyToken /\ req.resp.RefreshToken = EmptyToken
             /\ Live(req) => req.resp = SendAuthenticationError(
                                           "Invalid token type: access token required")
       /\ (req.op = "refresh" /\ req.token.TokenType = "access") =>
             /\ req.pc = "done"
             /\ ~req.resp.Success
             /\ req.resp.AccessToken = EmptyToken /\ req.resp.RefreshToken = EmptyToken
             /\ Live(req) => req.resp = SendAuthenticationError("Invalid token type")

(* A valid refresh token was presented as bearer token to Logout and a      *)
(* refresh token is among the handed out tokens.                            *)
C7_Witness ==
    \E p \in Procs :
       /\ proc[p].op = "logout" /\ proc[p].pc = "done"
       /\ proc[p].token.TokenType = "refresh"
       /\ proc[p].token \in known
       /\ Live(proc[p])

(* C8: a login with a well-formed phone number and PIN that fails because   *)
(* the phone number is not registered, because the lookup failed or because *)
(* the PIN does not match gets one and the same "invalid credentials"       *)
(* answer, and the step writes nothing to the store.                        *)
C8_AntiEnumeration ==
    [][\A p \in Procs :
          ( /\ proc[p].pc = "idle"
            /\ proc'[p].op = "login"
            /\ proc'[p].pc = "done"
            /\ ValidatePhoneNumber(proc'[p].phone) = NoError
            /\ ValidatePin(proc'[p].pin) = NoError )
          => /\ proc'[p].resp = SendAuthenticationError("invalid credentials")
             /\ users' = users
             /\ blacklist' = blacklist]_vars

(* A login for a phone number that is not registered was refused. *)
C8_Witness ==
    \E p \in Procs :
       /\ proc[p].op = "login" /\ proc[p].pc = "done"
       /\ proc[p].phone = PhoneUnknown /\ proc[p].pin = Pin1
       /\ ~proc[p].dbFailed
       /\ proc[p].resp.Message = "invalid credentials"

(* C9 as stated: on a protected route an access token whose expiresAt is    *)
(* one second in the past is rejected with the TOKEN_EXPIRED outcome, and   *)
(* one whose expiresAt is one second in the future is accepted.             *)
C9_ExpiryBoundary ==
    \A p \in Procs :
       LET req == proc[p] IN
       ( /\ req.op = "protected" /\ req.pc = "done"
         /\ req.at = now /\ ~req.dbFailed
         /\ WellSigned(req.token) /\ req.token.TokenType = "access"
         /\ req.token \notin BlacklistedTokens )
       => /\ req.token.ExpiresAt = now - 1 =>
                ~req.handlerRan /\ req.resp.Code = "TOKEN_EXPIRED"
          /\ req.token.ExpiresAt = now + 1 =>
                req.handlerRan /\ req.resp.Success

(* What the middleware answers to an expired and to a malformed token. *)
MiddlewareExpired(tok) ==
    JWTProtected(EmptyBag, "bearer", tok, TRUE,
                 tok.ExpiresAt + 1, tok.ExpiresAt + 1, tok.ExpiresAt + 1).resp

MiddlewareMalformed ==
    JWTProtected(EmptyBag, "bearer", MalformedToken, TRUE, now, now, now).resp

(* What Refresh answers to an expired and to a malformed token. *)
RefreshExpired(tok) ==
    RefreshChecks(EmptyBag, "json", tok, TRUE, tok.ExpiresAt + 1).resp

RefreshMalformed ==
    RefreshChecks(EmptyBag, "json", MalformedToken, TRUE, now).resp

(* The request presented a token that was blacklisted and not yet expired,  *)
(* and no store call failed.                                                *)
RevokedPresented(req) ==
    /\ req.pc = "done" /\ req.at = now /\ ~req.dbFailed
    /\ req.token \in BlacklistedTokens
    /\ now < req.token.ExpiresAt
    /\ req.op \in {"refresh", "logout"} => ~req.resp.Success

C11_LookupFailureIsInternalError ==
    /\ \A tok \in known :
          /\ ValidateToken(blacklist, tok, FALSE, now, now, now)
                = [err |-> "failed to check token blacklist status", claims |-> NoClaims]
          /\ RefreshChecks(blacklist, "json", tok, FALSE, now).resp.Code
                = "INTERNAL_SERVER_ERROR"
          /\ JWTProtected(blacklist, "bearer", tok, FALSE, now, now, now).resp.Code
                = "INTERNAL_SERVER_ERROR"
    /\ \A p \in Procs :
          (proc[p].op = "protected" /\ proc[p].pc = "done" /\ proc[p].dbFailed) =>
             /\ ~proc[p].handlerRan
             /\ proc[p].resp.Code = "INTERNAL_SERVER_ERROR"

(* C12: once Logout has validated the bearer access token, found it of     *)
(* kind access and blacklisted it, it answers "Logout successful" whether   *)
(* blacklisting the optional refresh token succeeds or fails, and the       *)
(* access token's blacklist row stays.                                      *)
C12_LogoutBestEffortRefresh ==
    \A p \in Procs :
       LET req == proc[p] IN
       req.op = "logout" =>
          /\ req.pc = "lo_refresh" => req.token \in BlacklistedTokens
          /\ (req.pc = "done" /\ req.handlerRan /\ req.token \in BlacklistedTokens) =>
                req.resp = SendSuccess("Logout successful")
          /\ (req.pc = "done" /\ req.resp.Success) =>
                /\ req.token \in BlacklistedTokens
                /\ req.token.TokenType = "access"

(* Logout answered success although the refresh token it was given could    *)
(* not be blacklisted.                                                      *)
C12_Witness ==
    \E p \in Procs :
       /\ proc[p].op = "logout" /\ proc[p].pc = "done"
       /\ proc[p].resp.Success
       /\ proc[p].rtoken.form # "empty"
       /\ proc[p].rtoken \notin BlacklistedTokens
       /\ proc[p].token \in BlacklistedTokens

(* C13: a failure of the last-login update never fails authentication:     *)
(* once the credential is found and the PIN verified, AuthenticateUser      *)
(* returns that identity whether UpdateLastLogin succeeds or fails, and     *)
(* Login goes on to answer with a token pair for it.                        *)
C13_LastLoginFailureIgnored ==
    [][\A p \in Procs :
          /\ (proc[p].pc = "l_update" /\ proc'[p].pc # "l_update") =>
                /\ proc'[p].pc = "l_generate"
                /\ proc'[p].user = proc[p].user
                /\ proc'[p].user.PhoneNumber = proc[p].phone
          /\ (proc[p].pc = "l_generate" /\ proc'[p].pc # "l_generate") =>
                /\ proc'[p].pc = "done"
                /\ proc'[p].resp.Success
                /\ proc'[p].resp.UserID = proc[p].user.ID]_vars

(* A login succeeded although the last-login update failed: the user's row  *)
(* still has no last login.                                                 *)
C13_Witness ==
    \E p \in Procs :
       /\ proc[p].op = "login" /\ proc[p].pc = "done"
       /\ proc[p].resp.Success /\ proc[p].dbFailed
       /\ \E u \in users : u.ID = proc[p].resp.UserID /\ u.LastLoginAt = Never

(* C14: AuthenticateUser called with a phone number or a PIN of invalid     *)
(* format returns the validation error, the phone number's first, without   *)
(* reading the users table (the result is the same with an empty table and  *)
(* a failing store) and without reaching the last-login update.             *)
C14_ValidationBeforeStore ==
    \A p \in Procs :
       LET req == proc[p]
           phoneErr == ValidatePhoneNumber(req.phone)
           expected == [err |-> IF phoneErr # NoError THEN phoneErr
                                ELSE ValidatePin(req.pin),
                        user |-> NoUser, read |-> FALSE] IN
       ( /\ req.op = "login" /\ req.phone # <<>> /\ req.pin # <<>>
         /\ expected.err # NoError )
       => /\ req.pc = "done"
          /\ ~req.dbFailed
          /\ req.resp.Message = expected.err
          /\ \A dbOK \in BOOLEAN :
                AuthenticateUser(users, req.phone, req.pin, dbOK) = expected
          /\ AuthenticateUser({}, req.phone, req.pin, FALSE) = expected

(* A login with a badly formatted phone number and a badly formatted PIN    *)
(* was refused after a successful login had filled the users table's last   *)
(* login.                                                                   *)
C14_Witness ==
    \E p \in Procs :
       /\ proc[p].op = "login" /\ proc[p].pc = "done"
       /\ proc[p].phone = PhoneBadFormat /\ proc[p].pin = PinBadFormat
       /\ proc[p].resp.Message = ValidatePhoneNumber(PhoneBadFormat)
       /\ \E u \in users : u.LastLoginAt # Never

(* C15 as stated: a Login request whose phone number or PIN is present but  *)
(* of invalid format is answered with VALIDATION_ERROR, not with the        *)
(* authentication failure used for bad credentials.                         *)
C15_FormatErrorIsValidationError ==
    \A p \in Procs :
       LET req == proc[p] IN
       ( /\ req.op = "login" /\ req.pc = "done"
         /\ req.phone # <<>> /\ req.pin # <<>>
         /\ (ValidatePhoneNumber(req.phone) # NoError
                \/ ValidatePin(req.pin) # NoError) )
       => /\ req.resp.Code = "VALIDATION_ERROR"
          /\ req.resp.Status = 400

IssuedWith(tok) ==
    GenerateAccessToken(tok.UserID, tok.PhoneNumber,
                        tok.IssuedAt, tok.IssuedAt, tok.IssuedAt)

(* C17 as stated: the pair returned by a successful Refresh holds an access *)
(* token and a refresh token that both differ from the presented refresh    *)
(* token and from the access token issued together with it, whatever the    *)
(* time between the original issuance and the refresh.                      *)
C17_RefreshedPairDiffers ==
    \A p \in Procs :
       LET req == proc[p] IN
       (req.op = "refresh" /\ req.pc = "done" /\ req.resp.Success) =>
          /\ req.resp.RefreshToken # req.token
          /\ req.resp.AccessToken # IssuedWith(req.token)

(* C18 as stated: every token returned by a successful Login or Refresh is  *)
(* usable when it is returned: ValidateToken right after the response       *)
(* accepts the access token as kind access and the refresh token as kind    *)
(* refresh.                                                                 *)
C18_ReturnedTokensUsable ==
    \A p \in Procs :
       LET req == proc[p] IN
       (req.op \in {"login", "refresh"} /\ req.pc = "done" /\ req.resp.Success) =>
          LET a == ValidateToken(blacklist, req.resp.AccessToken, TRUE, now, now, now)
              r == ValidateToken(blacklist, req.resp.RefreshToken, TRUE, now, now, now) IN
          /\ a.err = NoError /\ a.claims.TokenType = "access"
          /\ r.err = NoError /\ r.claims.TokenType = "refresh"

----------------------------------------------------------------------------
(* service.GenerateTokens called on its own, with the clock moving between  *)
(* its six time.Now() reads.                                                *)

(* The clock reads of one call: non-decreasing, from now on. *)
ReadSequences ==
    { r \in [1..6 -> now..(now + MaxDrift)] : \A i \in 1..5 : r[i] <= r[i + 1] }

(* GenerateTokens(userID, phoneNumber) is called and returns; the worker    *)
(* keeps the arguments (in user), the first clock read (in at) and the      *)
(* result (in resp, the error as message).                                  *)
CallGenerateTokens ==
    /\ started < MaxRequests
    /\ proc[1].pc = "idle"
    /\ \E userID \in {User1ID, NilUUID}, phoneNumber \in {Phone1, PhoneUnknown},
          r \in ReadSequences, signed \in [1..2 -> BOOLEAN] :
          LET g == GenerateTokensResult(userID, phoneNumber, r, signed) IN
          /\ g.err # NoError => \A i \in 1..6 : r[i] = now
          /\ proc' = [proc EXCEPT ![1] =
                [IdleProc EXCEPT
                    !.op = "generate", !.pc = "done",
                    !.user = [NoUser EXCEPT !.ID = userID, !.PhoneNumber = phoneNumber],
                    !.at = r[1],
                    !.resp = Response(g.err = NoError, 0, "", g.err,
                                      g.pair.AccessToken, g.pair.RefreshToken,
                                      g.pair.ExpiresIn, NilUUID, <<>>)]]
          /\ now' = r[6]
    /\ started' = started + 1
    /\ UNCHANGED <<clockMoves, users, blacklist, known, rotated>>

NextMint ==
    \/ CallGenerateTokens
    \/ \E p \in Procs : Receive(p)

SpecMint == Init /\ [][NextMint]_vars

(* C19 as stated: every token minted by GenerateAccessToken has issuedAt =  *)
(* notBefore = the issuance time and expiresAt = issuedAt + 900 seconds,    *)
(* and every token minted by GenerateRefreshToken has issuedAt = notBefore  *)
(* and expiresAt = issuedAt + 86400 seconds.                                *)
C19_FixedLifetimes ==
    \A p \in Procs :
       LET req == proc[p] IN
       (req.op = "generate" /\ req.pc = "done" /\ req.resp.Success) =>
          /\ req.resp.AccessToken.IssuedAt = req.resp.AccessToken.NotBefore
          /\ req.resp.AccessToken.ExpiresAt = req.resp.AccessToken.IssuedAt + 900
          /\ req.resp.RefreshToken.IssuedAt = req.resp.RefreshToken.NotBefore
          /\ req.resp.RefreshToken.ExpiresAt = req.resp.RefreshToken.IssuedAt + 86400

(* C20: every successful GenerateTokens result holds one token of kind      *)
(* access and one of kind refresh, both signed and both for the user id and *)
(* phone number passed in, with ExpiresIn = 900; when a signing step fails  *)
(* no pair is returned.                                                     *)
C20_GenerateTokensPair ==
    \A p \in Procs :
       LET req == proc[p] IN
       (req.op = "generate" /\ req.pc = "done") =>
          /\ req.resp.Success =>
                /\ req.resp.Message = NoError
                /\ req.resp.AccessToken.TokenType = "access"
                /\ req.resp.RefreshToken.TokenType = "refresh"
                /\ \A tok \in {req.resp.AccessToken, req.resp.RefreshToken} :
                      /\ WellSigned(tok)
                      /\ tok.UserID = req.user.ID
                      /\ tok.Subject = req.user.ID
                      /\ tok.PhoneNumber = req.user.PhoneNumber
                /\ req.resp.ExpiresIn = 900
          /\ ~req.resp.Success =>
                /\ req.resp.Message \in {"failed to generate access token",
                                         "failed to generate refresh token"}
                /\ req.resp.AccessToken = EmptyToken
                /\ req.resp.RefreshToken = EmptyToken
                /\ req.resp.ExpiresIn = 0

(* GenerateTokens returned a pair for the nil user id while the clock       *)
(* moved between the two tokens.                                            *)
C20_Witness ==
    \E p \in Procs :
       /\ proc[p].op = "generate" /\ proc[p].pc = "done"
       /\ proc[p].resp.Success
       /\ proc[p].user.ID = NilUUID
       /\ proc[p].resp.AccessToken.IssuedAt # proc[p].resp.RefreshToken.IssuedAt

(* C21: round trip.  For every user id, phone number and kind, ParseToken   *)
(* applied, once the Generate operation has returned, to the token it       *)
(* produced succeeds and yields claims whose user id, phone number and kind *)
(* are the issued ones, with issuer "tt-stock-api".                         *)
C21_RoundTrip ==
    \A p \in Procs :
       LET req == proc[p] IN
       (req.op = "generate" /\ req.pc = "done" /\ req.resp.Success) =>
          \A kind \in {"access", "refresh"} :
             LET tok == IF kind = "access" THEN req.resp.AccessToken
                        ELSE req.resp.RefreshToken
                 parsed == ParseToken(tok, now, now) IN
             /\ parsed.err = NoError
             /\ parsed.claims.UserID = req.user.ID
             /\ parsed.claims.PhoneNumber = req.user.PhoneNumber
             /\ parsed.claims.TokenType = kind
             /\ parsed.claims.Issuer = "tt-stock-api"

(* A pair was generated for the registered user within one clock second and *)
(* is parsed in that second.                                                *)
C21_Witness ==
    \E p \in Procs :
       /\ proc[p].op = "generate" /\ proc[p].pc = "done" /\ proc[p].resp.Success
       /\ proc[p].user.ID = User1ID
       /\ proc[p].resp.AccessToken.NotBefore = now
       /\ proc[p].resp.RefreshToken.NotBefore = now

(* C22: BlacklistToken called with a token that ParseToken rejects (empty,  *)
(* malformed, wrong signature or signing method, or already expired)        *)
(* returns an error and leaves the blacklist unchanged, whatever the state  *)
(* of the store (checked for the tokens the requests carry); no row of the blacklist was inserted for a token that      *)
(* ParseToken rejected at the time of the insert.                           *)
C22_UnparsableNotBlacklisted ==
    /\ \A tok \in { proc[p].token : p \in Procs } \cup { proc[p].rtoken : p \in Procs },
          dbOK \in BOOLEAN :
          ParseToken(tok, now, now).err # NoError =>
             LET b == BlacklistToken(blacklist, users, tok, dbOK, now, now) IN
             /\ b.err \in {"token is required", "invalid token"}
             /\ b.blacklist = blacklist
    /\ \A row \in BagToSet(blacklist) :
          ParseToken(row.token, row.blacklisted_at, row.blacklisted_at).err = NoError

(* A Logout has passed a refresh token that ParseToken rejects to           *)
(* BlacklistToken, after its access token was blacklisted.                  *)
C22_Witness ==
    \E p \in Procs :
       /\ proc[p].op = "logout" /\ proc[p].pc = "done" /\ proc[p].resp.Success
       /\ proc[p].rtoken.form = "jwt"
       /\ ParseToken(proc[p].rtoken, now, now).err # NoError
       /\ proc[p].token \in BlacklistedTokens
       /\ proc[p].rtoken \notin BlacklistedTokens

(* C23: the handler behind a JWTProtected route runs only for a request    *)
(* with a "Bearer" header whose token ValidateToken accepted and whose kind *)
(* is access, and the request context then holds exactly that token's user  *)
(* id, phone number and claims (req.at is the time of the ValidateToken     *)
(* call); on every rejection the handler has not run,                       *)
(* the context is empty and the response is an error; a request is rejected *)
(* only when one of the checks of the middleware fails.                     *)
C23_HandlerOnlyForAcceptedAccessToken ==
    \A p \in Procs :
       LET req == proc[p]
           v == ValidateToken(blacklist, req.token, ~req.dbFailed,
                              req.at, req.at, req.at) IN
       req.op \in {"protected", "logout"} =>
          /\ req.handlerRan =>
                /\ req.hdr = "bearer"
                /\ WellSigned(req.token)
                /\ req.token.TokenType = "access"
                /\ req.locals = [set |-> TRUE, user_id |-> req.token.UserID,
                                 phone_number |-> req.token.PhoneNumber,
                                 token_claims |-> req.token]
          /\ (req.handlerRan /\ (req.op = "protected" \/ req.pc = "lo_validate")) =>
                /\ v.err = NoError
                /\ v.claims = req.token
          /\ ~req.handlerRan =>
                /\ req.pc = "done"
                /\ req.locals = NoLocals
                /\ ~req.resp.Success
                /\ req.resp.Status = 401
                /\ \/ req.hdr # "bearer"
                   \/ req.token = EmptyToken
                   \/ v.err # NoError
                   \/ req.token.TokenType # "access"

(* The middleware has let a protected request through with the context     *)
(* set, after a token was blacklisted.                                      *)
C23_Witness ==
    \E p \in Procs :
       /\ proc[p].op = "protected" /\ proc[p].handlerRan /\ proc[p].locals.set
       /\ proc[p].locals.user_id = User1ID
       /\ blacklist # EmptyBag

----------------------------------------------------------------------------
(* service.ValidatePhoneNumber and service.ValidatePin called on their own, *)
(* with strings one edit away from a well-formed one.                       *)

(* Characters a client can send: digits, a letter, a space, a sign, a line  *)
(* feed.                                                                    *)
Alphabet == {"0", "7", "a", " ", "+", "\n"}

(* The strings obtained from s by replacing, deleting or inserting one      *)
(* character.                                                               *)
Edits(s) ==
    {s}
    \cup { [s EXCEPT ![i] = c] : i \in 1..Len(s), c \in Alphabet }
    \cup { SubSeq(s, 1, i - 1) \o SubSeq(s, i + 1, Len(s)) : i \in 1..Len(s) }
    \cup { SubSeq(s, 1, i - 1) \o <<c>> \o SubSeq(s, i, Len(s)) :
              i \in 1..(Len(s) + 1), c \in Alphabet }

PhoneStrings == PhoneInputs \cup Edits(Phone1) \cup Edits(PhoneUnknown)

PinStrings == PinInputs \cup Edits(Pin1) \cup Edits(PinWrong)

(* ValidatePhoneNumber(phoneNumber) is called and returns; the worker keeps *)
(* the argument (in phone) and the error (as message of resp).              *)
CallValidatePhoneNumber ==
    /\ started < MaxRequests
    /\ proc[1].pc = "idle"
    /\ \E phoneNumber \in PhoneStrings :
          LET err == ValidatePhoneNumber(phoneNumber) IN
          proc' = [proc EXCEPT ![1] =
             [IdleProc EXCEPT !.op = "validate_phone", !.pc = "done",
                              !.phone = phoneNumber,
                              !.resp = Response(err = NoError, 0, "", err,
                                                EmptyToken, EmptyToken, 0,
                                                NilUUID, <<>>)]]
    /\ started' = started + 1
    /\ UNCHANGED <<now, clockMoves, users, blacklist, known, rotated>>

(* ValidatePin(pin) is called and returns. *)
CallValidatePin ==
    /\ started < MaxRequests
    /\ proc[1].pc = "idle"
    /\ \E pin \in PinStrings :
          LET err == ValidatePin(pin) IN
          proc' = [proc EXCEPT ![1] =
             [IdleProc EXCEPT !.op = "validate_pin", !.pc = "done",
                              !.pin = pin,
                              !.resp = Response(err = NoError, 0, "", err,
                                                EmptyToken, EmptyToken, 0,
                                                NilUUID, <<>>)]]
    /\ started' = started + 1
    /\ UNCHANGED <<now, clockMoves, users, blacklist, known, rotated>>

NextValidate ==
    \/ CallValidatePhoneNumber
    \/ CallValidatePin
    \/ \E p \in Procs : Receive(p)

SpecValidate == Init /\ [][NextValidate]_vars

(* A string of exactly n characters, all of them digits. *)
AllDigits(s, n) == Len(s) = n /\ \A i \in DOMAIN s : s[i] \in Digits

(* C25: ValidatePhoneNumber accepts exactly the strings made of the digit 0 *)
(* followed by nine digits, and ValidatePin exactly the strings of six      *)
(* digits; the empty string is rejected with the "required" message and     *)
(* every other string with the format message.                              *)
C25_ValidationExact ==
    \A p \in Procs :
       LET req == proc[p] IN
       /\ (req.op = "validate_phone" /\ req.pc = "done") =>
             /\ req.resp.Success <=> (AllDigits(req.phone, 10) /\ Head(req.phone) = "0")
             /\ req.resp.Success => req.resp.Message = NoError
             /\ req.phone = <<>> => req.resp.Message = "phone number is required"
             /\ (~req.resp.Success /\ req.phone # <<>>) =>
                   req.resp.Message =
                      "invalid phone number format: must be 10 digits starting with 0"
       /\ (req.op = "validate_pin" /\ req.pc = "done") =>
             /\ req.resp.Success <=> AllDigits(req.pin, 6)
             /\ req.resp.Success => req.resp.Message = NoError
             /\ req.pin = <<>> => req.resp.Message = "PIN is required"
             /\ (~req.resp.Success /\ req.pin # <<>>) =>
                   req.resp.Message = "invalid PIN format: must be exactly 6 digits"

(* ValidatePin has rejected six digits followed by one more character. *)
C25_Witness ==
    \E p \in Procs :
       /\ proc[p].op = "validate_pin" /\ proc[p].pc = "done"
       /\ Len(proc[p].pin) = 7
       /\ AllDigits(SubSeq(proc[p].pin, 1, 6), 6)
       /\ proc[p].resp.Message = "invalid PIN format: must be exactly 6 digits"

(* C26: blacklist lifecycle.  In every step no row of the blacklist is      *)
(* removed or modified; the blacklist changes only by the insertion of one  *)
(* row, for the token or the optional refresh token of a Refresh or Logout  *)
(* request that has passed validation and the kind check; a step of a Login *)
(* and a step that rejects a Refresh or Logout request leave it unchanged.  *)
C26_BlacklistLifecycle ==
    [][ /\ \A row \in BagToSet(blacklist) :
              CopiesIn(row, blacklist') >= CopiesIn(row, blacklist)
        /\ blacklist' # blacklist =>
              \E p \in Procs :
                 LET req == proc[p] IN
                 /\ proc'[p] # req
                 /\ \/ /\ req.op = "refresh" /\ req.pc = "r_blacklist"
                       /\ req.claims = req.token
                       /\ req.token.TokenType = "refresh"
                    \/ /\ req.op = "logout" /\ req.pc \in {"lo_blacklist", "lo_refresh"}
                       /\ req.claims = req.token
                       /\ req.token.TokenType = "access"
                 /\ WellSigned(req.token)
                 /\ \E row \in BagToSet(blacklist') :
                       /\ blacklist' = blacklist (+) SetToBag({row})
                       /\ row.token = IF req.pc = "lo_refresh" THEN req.rtoken
                                      ELSE req.token
                       /\ row.blacklisted_at = now
                       /\ row.expires_at > now
        /\ \A p \in Procs :
              (/\ proc'[p] # proc[p]
               /\ \/ proc'[p].op = "login"
                  \/ proc'[p].resp.Code \in {"VALIDATION_ERROR", "AUTHENTICATION_ERROR",
                                             "TOKEN_EXPIRED"})
              => blacklist' = blacklist
      ]_vars

(* Rows have been inserted for a refresh token and for an access token at   *)
(* different times.                                                         *)
C26_Witness ==
    \E r1, r2 \in BagToSet(blacklist) :
       /\ r1.token_type = "refresh" /\ r2.token_type = "access"
       /\ r1.blacklisted_at < r2.blacklisted_at

(* The identifier, phone number and PIN hash of every credential. *)
Credentials(tbl) ==
    { [ID |-> u.ID, PhoneNumber |-> u.PhoneNumber, PinHash |-> u.PinHash] : u \in tbl }

(* C27: credential frame.  No step changes the identifier, phone number or  *)
(* PIN hash of a credential; the credential store changes only in the       *)
(* last-login step of a Login whose phone number and PIN were verified, and *)
(* then only the last-login and updated timestamps of that identity are set *)
(* to the current time; a step of a Refresh, a Logout or a protected        *)
(* request and a step that ends a Login without success leave it unchanged. *)
C27_CredentialFrame ==
    [][ /\ Credentials(users') = Credentials(users)
        /\ users' # users =>
              \E p \in Procs :
                 LET req == proc[p] IN
                 /\ proc'[p] # req
                 /\ req.op = "login" /\ req.pc = "l_update"
                 /\ req.user.PhoneNumber = req.phone
                 /\ CheckPin(req.user.PinHash, req.pin) = NoError
                 /\ users' = { IF u.ID = req.user.ID
                               THEN [u EXCEPT !.LastLoginAt = now, !.UpdatedAt = now]
                               ELSE u : u \in users }
        /\ \A p \in Procs :
              (/\ proc'[p] # proc[p]
               /\ \/ proc'[p].op \in {"refresh", "logout", "protected"}
                  \/ proc'[p].op = "login" /\ proc'[p].pc = "done"
                                           /\ ~proc'[p].resp.Success)
              => users' = users
      ]_vars

(* A Login has failed after an earlier Login set the last-login timestamp. *)
C27_Witness ==
    \E p \in Procs :
       /\ proc[p].op = "login" /\ proc[p].pc = "done" /\ ~proc[p].resp.Success
       /\ \E u \in users : u.LastLoginAt # Never /\ u.LastLoginAt < now

(* C28: every blacklist entry is consistent with the token it is keyed by:  *)
(* its owning identity is the token's user id, its kind the token's kind    *)
(* and its expiry the token's own expiresAt.                                *)
C28_EntryMatchesToken ==
    \A row \in BagToSet(blacklist) :
       /\ row.user_id = row.token.UserID
       /\ row.token_type = row.token.TokenType
       /\ row.expires_at = row.token.ExpiresAt

(* A refresh token was blacklisted some time after it was issued. *)
C28_Witness ==
    \E row \in BagToSet(blacklist) :
       /\ row.token_type = "refresh"
       /\ row.blacklisted_at > row.token.IssuedAt

(* C29 as stated: the blacklist is keyed by token value; after any sequence *)
(* of Refresh and Logout requests it holds at most one entry per token      *)
(* string.                                                                  *)
C29_OneEntryPerToken ==
    \A row \in BagToSet(blacklist) :
       /\ CopiesIn(row, blacklist) = 1
       /\ \A other \in BagToSet(blacklist) : other.token = row.token => other = row

(* C30 as stated: kind enforcement holds for the optional refresh-token     *)
(* field of Logout: every blacklist entry created from that field is for a  *)
(* token of kind refresh.                                                   *)
C30_LogoutFieldKind ==
    [][ \A p \in Procs :
           (proc[p].pc = "lo_refresh" /\ blacklist' # blacklist) =>
              /\ proc[p].rtoken.TokenType = "refresh"
              /\ \A row \in BagToSet(blacklist') :
                    CopiesIn(row, blacklist') > CopiesIn(row, blacklist) =>
                       row.token_type = "refresh"
      ]_vars

----------------------------------------------------------------------------
(* Two registered users.  The second account has the phone number and PIN   *)
(* that belong to nobody while the table holds one user.                    *)

User2ID == "user-2"
Phone2 == PhoneUnknown
Pin2 == PinWrong

TwoUsers ==
    InitialUsers \cup
    { [ID |-> User2ID, PhoneNumber |-> Phone2, PinHash |-> HashPin(Pin2),
       UpdatedAt |-> 0, LastLoginAt |-> Never] }

InitTwoUsers ==
    /\ now = 0
    /\ clockMoves = 0
    /\ users = TwoUsers
    /\ blacklist = EmptyBag
    /\ proc = [p \in Procs |-> IdleProc]
    /\ started = 0
    /\ known = {}
    /\ rotated = EmptyBag

SpecTwoUsers == InitTwoUsers /\ [][Next]_vars

(* C31 as stated: Logout revokes only the caller's own tokens: every        *)
(* blacklist entry created by a Logout request, for the bearer access token *)
(* and for the optional refresh token, has the owning identity carried by   *)
(* that request's validated access token.                                   *)
C31_LogoutRevokesOwnTokens ==
    [][ \A p \in Procs :
           (/\ proc[p].op = "logout"
            /\ proc[p].pc \in {"lo_blacklist", "lo_refresh"}
            /\ proc'[p] # proc[p]) =>
              \A row \in BagToSet(blacklist') :
                 CopiesIn(row, blacklist') > CopiesIn(row, blacklist) =>
                    row.user_id = proc[p].locals.user_id
      ]_vars

(* C32 as stated: session isolation.  The token strings returned by         *)
(* different successful Login or Refresh responses are pairwise distinct:   *)
(* a response never returns a token string that an earlier response has     *)
(* returned, so revoking the tokens of one session cannot revoke those of   *)
(* another.                                                                 *)
C32_SessionsDistinct ==
    [][ \A p \in Procs :
           (/\ proc[p].pc \in {"l_generate", "r_generate"}
            /\ proc'[p].pc = "done" /\ proc'[p].resp.Success) =>
              /\ proc'[p].resp.AccessToken \notin known
              /\ proc'[p].resp.RefreshToken \notin known
      ]_vars

(* C33: identity continuity of Refresh.  The pair returned by a successful  *)
(* Refresh is issued for exactly the user id and phone number in the claims *)
(* of the presented refresh token and the user block of the response        *)
(* repeats them; the response is determined by the presented token and the  *)
(* clock alone, the users table plays no part in it.                        *)
C33_RefreshKeepsIdentity ==
    \A p \in Procs :
       LET req == proc[p]
           tokens == GenerateTokens(req.token.UserID, req.token.PhoneNumber,
                                    ClockReads) IN
       /\ (req.op = "refresh" /\ req.pc \in {"r_blacklist", "r_generate"}) =>
             /\ req.claims = req.token
             /\ req.user = NoUser
       /\ (req.op = "refresh" /\ req.pc = "done" /\ req.resp.Success) =>
             /\ req.resp = SendLoginSuccess(tokens.AccessToken, tokens.RefreshToken,
                                            900, req.token.UserID,
                                            req.token.PhoneNumber)
             /\ \A tok \in {req.resp.AccessToken, req.resp.RefreshToken} :
                   /\ tok.UserID = req.token.UserID
                   /\ tok.PhoneNumber = req.token.PhoneNumber
             /\ req.resp.UserID = req.token.UserID
             /\ req.resp.PhoneNumber = req.token.PhoneNumber

(* A Refresh has returned a pair some time after the presented token was    *)
(* issued.                                                                  *)
C33_Witness ==
    \E p \in Procs :
       /\ proc[p].op = "refresh" /\ proc[p].pc = "done" /\ proc[p].resp.Success
       /\ proc[p].resp.UserID = User1ID
       /\ proc[p].resp.RefreshToken.IssuedAt > proc[p].token.IssuedAt

----------------------------------------------------------------------------
(* service.ParseToken called on its own with tokens obtained by Login, the  *)
(* clock moving between the validation inside jwt.ParseWithClaims and the   *)
(* time.Now() of the explicit expiry check.                                 *)

(* ParseToken(tokenString) is called and returns; the worker keeps the      *)
(* argument (in token), the time of the library's validation (in at) and    *)
(* the error (as message of resp).                                          *)
CallParseToken(p) ==
    /\ CanStart(p, FALSE)
    /\ \E tok \in TokenInputs, t2 \in now..(now + MaxParseDelay) :
          LET parsed == ParseToken(tok, now, t2) IN
          /\ (tok.form # "jwt" \/ ParseWithClaims(tok, now) # NoError) => t2 = now
          /\ proc' = [proc EXCEPT ![p] =
                [IdleProc EXCEPT !.op = "parse", !.pc = "done",
                                 !.token = tok, !.at = now,
                                 !.resp = Response(parsed.err = NoError, 0, "",
                                                   parsed.err, EmptyToken, EmptyToken,
                                                   0, parsed.claims.UserID,
                                                   parsed.claims.PhoneNumber)]]
          /\ now' = t2
    /\ started' = started + 1
    /\ UNCHANGED <<clockMoves, users, blacklist, known, rotated>>

NextParse ==
    \/ Advance
    \/ \E p \in Procs : LoginAuthenticate(p, FALSE)
    \/ \E p \in Procs : LoginUpdateLastLogin(p)
    \/ \E p \in Procs : LoginGenerate(p)
    \/ \E p \in Procs : CallParseToken(p)
    \/ \E p \in Procs : Receive(p)

SpecParse == Init /\ [][NextParse]_vars

(* C34 as stated: within one ParseToken call the explicit expiry re-check   *)
(* never rejects a token that the verification step of the signing library  *)
(* accepted: the "token has expired" result is never produced.              *)
C34_ExpiryChecksAgree ==
    \A p \in Procs :
       (proc[p].op = "parse" /\ proc[p].pc = "done") =>
          proc[p].resp.Message # "token has expired"

(* C35: if blacklisting the bearer access token fails during Logout, the    *)
(* request is answered at once with the internal error "Failed to           *)
(* invalidate access token" and nothing is written for it afterwards; the   *)
(* optional refresh token is handled only by a request whose access token   *)
(* has a blacklist row.                                                     *)
C35_LogoutStopsOnAccessFailure ==
    [][ \A p \in Procs :
           LET req == proc[p] IN
           /\ (/\ req.op = "logout" /\ req.pc = "lo_blacklist"
               /\ proc'[p] # req
               /\ req.token \notin { row.token : row \in BagToSet(blacklist') }) =>
                 /\ blacklist' = blacklist
                 /\ proc'[p].pc = "done"
                 /\ ~proc'[p].resp.Success
                 /\ proc'[p].resp =
                       SendInternalServerError("Failed to invalidate access token")
           /\ (req.op = "logout" /\ req.pc = "lo_refresh") =>
                 req.token \in BlacklistedTokens
           /\ (req.op = "logout" /\ req.pc = "done" /\ proc'[p] # req) =>
                 blacklist' = blacklist
      ]_vars

(* A Logout carrying a refresh token in its body was answered with the      *)
(* internal error, and the refresh token has no blacklist row.              *)
C35_Witness ==
    \E p \in Procs :
       /\ proc[p].op = "logout" /\ proc[p].pc = "done"
       /\ proc[p].resp.Status = 500
       /\ proc[p].rtoken.TokenType = "refresh"
       /\ proc[p].rtoken \notin BlacklistedTokens
       /\ proc[p].token \notin BlacklistedTokens

(* Token strings built without the service secret, or with a method that   *)
(* is not HMAC, around the claims of the registered user.                   *)
ForgedTokens ==
    { [ForgedKeyToken EXCEPT !.alg = a, !.key = k, !.TokenType = ty] :
         a \in HMACMethods \cup {"none", "RS256"}, k \in {"other", ""},
         ty \in {"access", "refresh"} }
    \cup { [ForgedKeyToken EXCEPT !.alg = a] : a \in {"none", "RS256"} }

(* C36: ParseToken rejects every token string that was not signed with the  *)
(* service's secret using an HMAC method: a token whose signature does not  *)
(* verify, whose signing algorithm is not HMAC, or that is empty or         *)
(* malformed yields an error ("token is required" or "invalid token") and   *)
(* no claims; the tokens it accepts were returned by Login.                 *)
C36_OnlyServiceSignedTokensParse ==
    /\ \A tok \in ForgedTokens :
          ParseToken(tok, now, now) = [err |-> "invalid token", claims |-> NoClaims]
    /\ \A p \in Procs :
          LET req == proc[p] IN
          (req.op = "parse" /\ req.pc = "done") =>
             /\ ~(req.token.form = "jwt" /\ req.token.alg \in HMACMethods
                                         /\ req.token.key = "secret") =>
                   /\ ~req.resp.Success
                   /\ req.resp.Message =
                         IF req.token = EmptyToken THEN "token is required"
                         ELSE "invalid token"
                   /\ req.resp.UserID = NilUUID /\ req.resp.PhoneNumber = <<>>
             /\ req.resp.Success =>
                   /\ WellSigned(req.token)
                   /\ req.token \in known
                   /\ req.resp.UserID = req.token.UserID

(* ParseToken has rejected a token signed with another key while tokens of  *)
(* the service were in circulation.                                         *)
C36_Witness ==
    \E p \in Procs :
       /\ proc[p].op = "parse" /\ proc[p].pc = "done"
       /\ proc[p].token = ForgedKeyToken
       /\ proc[p].resp.Message = "invalid token"
       /\ known # {}

============================================================================
